---------------------------- MODULE Spec2Model ----------------------------
(***************************************************************************)
(* A model of clitools' image pipeline (internal/image/processor.go and    *)
(* cmd/image.go): the transparent-bounds cropper, the scale arithmetic,    *)
(* and the optimize / scale command pipelines with their file effects.     *)
(***************************************************************************)
EXTENDS Integers, Sequences, FiniteSets, TLC

VARIABLES
    \* ---- cropTransparentAreas applied to an image, then to its own result
    img,            \* the image handed to cropTransparentAreas
    croppedImg,     \* cropTransparentAreas(img)
    recroppedImg,   \* cropTransparentAreas(croppedImg)
    contentRect,    \* minX, minY, maxX, maxY, foundContent after the scan of img
    cropPc,         \* "input" | "cropped" | "recropped"
    \* ---- ScaleImage's parameters and locals
    factor,         \* the float32 factor, as <<m, e>> for m * 2^e
    width, height,  \* the requested target dimensions (0: not set)
    originalWidth, originalHeight,
    targetWidth, targetHeight,
    pc,             \* where the command is
    \* ---- one command invocation (cmd/image.go) and its effects
    cmd,            \* the command, "optimize" | "scale", or the public method
                    \* called directly, "OptimizeImage" | "LoadImage", or "none"
    inputPath, outputPath,      \* strings, as sequences of characters
    algorithm,      \* --algorithm, a string
    quality,        \* --quality, a float32
    svgScale,       \* --svg-scale, a float32
    invoked,        \* the Processor method called, or "none"
    viewBox,        \* the parsed SVG's ViewBox <<W, H>>
    scale,          \* loadSVGWithScale's scale after the clamp
    renderSize,     \* <<renderWidth, renderHeight>> of the working canvas
    filter,         \* the imaging filter handed to Resize, or "none"
    stages,         \* the pipeline stages run so far, in order
    openFiles,      \* the file handles open now
    inputOpened,    \* os.Open of the input succeeded at some point
    outputDirCreated, outputFileCreated,
    encoder,        \* the encoder the image was handed to, or "none"
    jpegQuality,    \* the Quality handed to jpeg.Encode (0: none)
    err,            \* the error kind returned, or "none"
    \* ---- loadSVGWithScale's point sampling, with img as the working canvas
    finalImg,       \* the canvas of int(width) by int(height) it returns
    skipped         \* the pixels of finalImg whose bounds check failed

cropVars == <<img, croppedImg, recroppedImg, contentRect, cropPc>>

sampleVars == <<finalImg, skipped>>

dimVars == <<factor, width, height, originalWidth, originalHeight,
             targetWidth, targetHeight>>

argVars == <<cmd, inputPath, algorithm, quality, svgScale, factor, width, height>>

svgVars == <<viewBox, scale, renderSize>>

sizeVars == <<originalWidth, originalHeight, targetWidth, targetHeight>>

outVars == <<outputDirCreated, outputFileCreated, encoder, jpegQuality>>

cmdVars == <<cmd, inputPath, outputPath, algorithm, quality, svgScale, invoked,
             viewBox, scale, renderSize, filter, stages, openFiles, inputOpened,
             outputDirCreated, outputFileCreated, encoder, jpegQuality, err>>

vars == <<img, croppedImg, recroppedImg, contentRect, cropPc,
          factor, width, height, originalWidth, originalHeight,
          targetWidth, targetHeight, pc,
          cmd, inputPath, outputPath, algorithm, quality, svgScale, invoked,
          viewBox, scale, renderSize, filter, stages, openFiles, inputOpened,
          outputDirCreated, outputFileCreated, encoder, jpegQuality, err,
          finalImg, skipped>>

-----------------------------------------------------------------------------
(* Bounds of the model.                                                    *)

\* Largest width and height of an image handed to the cropper.
MaxDim == 3

\* Largest number of opaque pixels painted on the transparent field.
MaxContent == 3

\* Offset of the bounds' origin for images whose bounds do not start at (0,0).
OriginShift == 2

\* Largest width and height of an image handed to the scale arithmetic.
MaxOriginal == 7

\* Largest requested --width / --height.
MaxTarget == 27

\* Factors are typed as n/4 and n/10 for n up to MaxFactorNum either side of 0.
MaxFactorNum == 12

-----------------------------------------------------------------------------
(* Colours.  A colour is the tuple <<r, g, b, a>> that Color.RGBA() yields: *)
(* 16-bit alpha-premultiplied channels.                                    *)

ChanMax == 65535

Transparent == <<0, 0, 0, 0>>
OpaqueRed   == <<ChanMax, 0, 0, ChanMax>>

\* Colours met on one pixel of a decoded image besides the two above:
\* opaque black (content by alpha alone), a single colour channel with
\* alpha 0 (as image.RGBA can hold), a faint alpha below 1/256 (a 16-bit
\* image), and a half-transparent red (color.NRGBA{100,0,0,128}).
OddColors ==
    { <<0, 0, 0, ChanMax>>,
      <<ChanMax, 0, 0, 0>>, <<0, ChanMax, 0, 0>>, <<0, 0, ChanMax, 0>>,
      <<0, 0, 0, 255>>,
      <<12900, 0, 0, 32896>> }

\* color.RGBAModel.Convert, as image.RGBA.Set applies it: each 16-bit channel
\* keeps its high byte.
RGBAModelConvert(c) == [i \in 1..4 |-> c[i] \div 256]

\* color.RGBA.RGBA(): an 8-bit channel v reads back as v | v<<8.
RGBA8To16(c) == [i \in 1..4 |-> c[i] * 257]

\* croppedImg.Set(x, y, c) on an *image.RGBA followed by At(x, y).RGBA().
SetRGBAAsCopy(c) == c
SetRGBA(c) == RGBA8To16(RGBAModelConvert(c))

-----------------------------------------------------------------------------
(* Images: a rectangle of bounds (Max exclusive) and a colour per point.   *)

Rect(x0, y0, x1, y1) == [min |-> <<x0, y0>>, max |-> <<x1, y1>>]

Points(b) ==
    { <<x, y>> : x \in b.min[1]..(b.max[1] - 1), y \in b.min[2]..(b.max[2] - 1) }

Dx(b) == b.max[1] - b.min[1]
Dy(b) == b.max[2] - b.min[2]

\* image.NewRGBA(r): every pixel zero.
NewRGBA(b) == [bounds |-> b, pix |-> [p \in Points(b) |-> Transparent]]

NoImage == [bounds |-> Rect(0, 0, 0, 0), pix |-> << >>]

At(im, x, y) == im.pix[<<x, y>>]

-----------------------------------------------------------------------------
(* cropTransparentAreas                                                    *)

\* The test of processor.go:106 on the channels img.At(x, y).RGBA() returns.
isContentAlphaOnly(c) == c[4] > 0
isContent(c) == c[4] > 0 \/ c[1] > 0 \/ c[2] > 0 \/ c[3] > 0

\* One iteration of the scan's inner loop body (processor.go:103-120).
visitNoMaxY(im, x, y, acc) ==
    IF isContent(At(im, x, y))
    THEN [minX  |-> IF x < acc.minX THEN x ELSE acc.minX,
          maxX  |-> IF x > acc.maxX THEN x ELSE acc.maxX,
          minY  |-> IF y < acc.minY THEN y ELSE acc.minY,
          maxY  |-> acc.maxY,
          foundContent |-> TRUE]
    ELSE acc
visit(im, x, y, acc) ==
    IF isContent(At(im, x, y))
    THEN [minX  |-> IF x < acc.minX THEN x ELSE acc.minX,
          maxX  |-> IF x > acc.maxX THEN x ELSE acc.maxX,
          minY  |-> IF y < acc.minY THEN y ELSE acc.minY,
          maxY  |-> IF y > acc.maxY THEN y ELSE acc.maxY,
          foundContent |-> TRUE]
    ELSE acc

\* The two nested loops, row by row from (x, y) on.
RECURSIVE scan(_, _, _, _)
scan(im, x, y, acc) ==
    IF y >= im.bounds.max[2] THEN acc
    ELSE IF x >= im.bounds.max[1] THEN scan(im, im.bounds.min[1], y + 1, acc)
    ELSE scan(im, x + 1, y, visit(im, x, y, acc))

\* minX, minY start at bounds.Max and maxX, maxY at bounds.Min.
contentBounds(im) ==
    scan(im, im.bounds.min[1], im.bounds.min[2],
         [minX |-> im.bounds.max[1], minY |-> im.bounds.max[2],
          maxX |-> im.bounds.min[1], maxY |-> im.bounds.min[2],
          foundContent |-> FALSE])

emptyResultKeepsInput(im) == im
emptyResult(im) == NewRGBA(Rect(0, 0, 1, 1))

copyRectNoOffset(im, cb) ==
    LET croppedBounds == Rect(0, 0, cb.maxX - cb.minX + 1, cb.maxY - cb.minY + 1)
    IN  [bounds |-> croppedBounds,
         pix |-> [p \in Points(croppedBounds) |->
                    SetRGBA(At(im, p[1] + im.bounds.min[1], p[2] + im.bounds.min[2]))]]
copyRect(im, cb) ==
    LET croppedBounds == Rect(0, 0, cb.maxX - cb.minX + 1, cb.maxY - cb.minY + 1)
    IN  [bounds |-> croppedBounds,
         pix |-> [p \in Points(croppedBounds) |->
                    SetRGBA(At(im, p[1] + cb.minX, p[2] + cb.minY))]]

cropTransparentAreas(im) ==
    LET cb == contentBounds(im)
    IN  IF ~cb.foundContent THEN emptyResult(im) ELSE copyRect(im, cb)

-----------------------------------------------------------------------------
(* float32 arithmetic.  A float32 is <<m, e>>, standing for m * 2^e with    *)
(* |m| <= 2^24; every operation rounds to 24 significant bits, ties to     *)
(* even.  The values met here are far from the exponent limits.            *)

Abs(n) == IF n < 0 THEN -n ELSE n
Sign(n) == IF n < 0 THEN -1 ELSE 1

\* n / d rounded to the nearest integer, ties to even (n >= 0, d > 0).
RoundHalfEven(n, d) ==
    LET f == n \div d
        r == n % d
    IN  IF 2 * r < d THEN f
        ELSE IF 2 * r > d THEN f + 1
        ELSE IF f % 2 = 0 THEN f ELSE f + 1

RECURSIVE upShift(_, _, _)
upShift(a, q, k) == IF a * 2^k >= q * 2^23 THEN k ELSE upShift(a, q, k + 1)

RECURSIVE downShift(_, _)
downShift(a, j) == IF a \div 2^j < 2^24 THEN j ELSE downShift(a, j + 1)

\* The float32 nearest to p / q (q > 0).
F32(p, q) ==
    LET a == Abs(p)
    IN  IF a = 0 THEN <<0, 0>>
        ELSE IF a \div q >= 2^24
        THEN LET j == downShift(a \div q, 1)
             IN  <<Sign(p) * RoundHalfEven(a, q * 2^j), j>>
        ELSE LET k == upShift(a, q, 0)
             IN  <<Sign(p) * RoundHalfEven(a * 2^k, q), -k>>

\* float32(n) of a small int.
F32FromInt(n) == <<n, 0>>

\* The same value with an odd significand.
RECURSIVE Reduce(_)
Reduce(x) ==
    IF x[1] # 0 /\ x[1] % 2 = 0 THEN Reduce(<<x[1] \div 2, x[2] + 1>>) ELSE x

\* x * y and x / y of float32 values, for an integer-valued x or y.
F32Mul(x, y) ==
    LET a == Reduce(x)
        b == Reduce(y)
        r == F32(a[1] * b[1], 1)
    IN  IF r[1] = 0 THEN r ELSE <<r[1], r[2] + a[2] + b[2]>>

RECURSIVE GCD(_, _)
GCD(a, b) == IF b = 0 THEN a ELSE GCD(b, a % b)

\* float32(a) / float32(b), computed on the fraction in lowest terms.
F32DivInts(a, b) ==
    LET g == GCD(Abs(a), Abs(b))
    IN  F32(a \div g, b \div g)

\* int(x): the fraction is discarded, toward zero.
F32ToIntNearest(x) ==
    IF x[2] >= 0 THEN x[1] * 2^(x[2])
    ELSE IF -x[2] > 30 THEN 0
    ELSE Sign(x[1]) * RoundHalfEven(Abs(x[1]), 2^(-x[2]))
F32ToInt(x) ==
    IF x[2] >= 0 THEN x[1] * 2^(x[2])
    ELSE IF -x[2] > 30 THEN 0
    ELSE Sign(x[1]) * (Abs(x[1]) \div 2^(-x[2]))

-----------------------------------------------------------------------------
(* ScaleImage's target dimensions (processor.go:383-404).                  *)

targetDimensionsSwapped(ow, oh, f, w, h) ==
    IF f[1] # 0
    THEN <<F32ToInt(F32Mul(F32FromInt(ow), f)), F32ToInt(F32Mul(F32FromInt(oh), f))>>
    ELSE IF w # 0 /\ h # 0 THEN <<w, h>>
    ELSE IF w # 0
    THEN <<w, F32ToInt(F32Mul(F32FromInt(w), F32DivInts(ow, oh)))>>
    ELSE IF h # 0
    THEN <<F32ToInt(F32Mul(F32FromInt(h), F32DivInts(oh, ow))), h>>
    ELSE <<0, 0>>
targetDimensions(ow, oh, f, w, h) ==
    IF f[1] # 0
    THEN <<F32ToInt(F32Mul(F32FromInt(ow), f)), F32ToInt(F32Mul(F32FromInt(oh), f))>>
    ELSE IF w # 0 /\ h # 0 THEN <<w, h>>
    ELSE IF w # 0
    THEN <<w, F32ToInt(F32Mul(F32FromInt(w), F32DivInts(oh, ow)))>>
    ELSE IF h # 0
    THEN <<F32ToInt(F32Mul(F32FromInt(h), F32DivInts(ow, oh))), h>>
    ELSE <<0, 0>>

-----------------------------------------------------------------------------
(* Strings, as sequences of one-character strings.                         *)

Uppers ==
    <<"A", "B", "C", "D", "E", "F", "G", "H", "I", "J", "K", "L", "M",
      "N", "O", "P", "Q", "R", "S", "T", "U", "V", "W", "X", "Y", "Z">>
Lowers ==
    <<"a", "b", "c", "d", "e", "f", "g", "h", "i", "j", "k", "l", "m",
      "n", "o", "p", "q", "r", "s", "t", "u", "v", "w", "x", "y", "z">>

toLowerChar(c) ==
    IF \E i \in 1..Len(Uppers) : Uppers[i] = c
    THEN Lowers[CHOOSE i \in 1..Len(Uppers) : Uppers[i] = c]
    ELSE c

\* strings.ToLower
ToLowerIdentity(s) == s
ToLower(s) == [i \in 1..Len(s) |-> toLowerChar(s[i])]

\* filepath.Ext: the suffix from the last dot of the last path element.
Ext(path) ==
    LET dots == { i \in 1..Len(path) :
                    path[i] = "." /\ \A j \in i..Len(path) : path[j] # "/" }
    IN  IF dots = {} THEN << >>
        ELSE SubSeq(path, CHOOSE i \in dots : \A j \in dots : j <= i, Len(path))

\* strings.HasSuffix and strings.TrimSuffix
HasSuffix(s, suffix) ==
    /\ Len(suffix) <= Len(s)
    /\ SubSeq(s, Len(s) - Len(suffix) + 1, Len(s)) = suffix

TrimSuffix(s, suffix) ==
    IF HasSuffix(s, suffix) THEN SubSeq(s, 1, Len(s) - Len(suffix)) ELSE s

DotSvg  == <<".", "s", "v", "g">>
DotWebp == <<".", "w", "e", "b", "p">>

isSVG(path) == ToLower(Ext(path)) = DotSvg

-----------------------------------------------------------------------------
(* Comparisons of a float32 <<m, e>> with a small integer.                 *)

\* strconv.ParseFloat, behind the --svg-scale flag, reads "NaN" as the float32
\* that is not a number: here the pair no finite value has.
NaN == <<0, 255>>

\* x < n and x > n of a float32 and a small int: false of NaN.
F32LessInt(x, n) ==
    IF x = NaN THEN FALSE
    ELSE IF x[2] >= 0 THEN x[1] * 2^(x[2]) < n ELSE x[1] < n * 2^(-x[2])

F32GreaterInt(x, n) ==
    IF x = NaN THEN FALSE
    ELSE IF x[2] >= 0 THEN x[1] * 2^(x[2]) > n ELSE x[1] > n * 2^(-x[2])

\* loadSVGWithScale's clamp of scale between 1 and 4 (processor.go:281-287).
clampScaleNoUpper(s) ==
    IF F32LessInt(s, 1) THEN F32FromInt(1) ELSE s
clampScale(s) ==
    LET s1 == IF F32LessInt(s, 1) THEN F32FromInt(1) ELSE s
    IN  IF F32GreaterInt(s1, 4) THEN F32FromInt(4) ELSE s1

-----------------------------------------------------------------------------
(* The scale command's checks and ScaleImage's choice of filter.           *)

\* scaleCmd.RunE's two checks (cmd/image.go:88-94).
invalidParametersWidthOnly(f, w, h) ==
    \/ f[1] = 0 /\ w = 0 /\ h = 0
    \/ f[1] # 0 /\ w # 0
invalidParameters(f, w, h) ==
    \/ f[1] = 0 /\ w = 0 /\ h = 0
    \/ f[1] # 0 /\ (w # 0 \/ h # 0)

Nearest  == <<"n", "e", "a", "r", "e", "s", "t">>
Bilinear == <<"b", "i", "l", "i", "n", "e", "a", "r">>
Linear   == <<"l", "i", "n", "e", "a", "r">>
Bicubic  == <<"b", "i", "c", "u", "b", "i", "c">>
Cubic    == <<"c", "u", "b", "i", "c">>
Lanczos  == <<"l", "a", "n", "c", "z", "o", "s">>

\* The switch on strings.ToLower(algorithm) (processor.go:410-421); "none"
\* is the default branch.
resampleFilterDefaulting(a) ==
    LET name == ToLower(a)
    IN  IF name = Nearest THEN "NearestNeighbor"
        ELSE IF name \in {Bilinear, Linear} THEN "Linear"
        ELSE IF name \in {Bicubic, Cubic} THEN "CatmullRom"
        ELSE "Lanczos"
resampleFilterNoAliases(a) ==
    LET name == ToLower(a)
    IN  IF name = Nearest THEN "NearestNeighbor"
        ELSE IF name = Bilinear THEN "Linear"
        ELSE IF name = Bicubic THEN "CatmullRom"
        ELSE IF name = Lanczos THEN "Lanczos"
        ELSE "none"
resampleFilter(a) ==
    LET name == ToLower(a)
    IN  IF name = Nearest THEN "NearestNeighbor"
        ELSE IF name \in {Bilinear, Linear} THEN "Linear"
        ELSE IF name \in {Bicubic, Cubic} THEN "CatmullRom"
        ELSE IF name = Lanczos THEN "Lanczos"
        ELSE "none"

-----------------------------------------------------------------------------
(* Input images: a transparent field with up to MaxContent opaque pixels   *)
(* and at most one pixel of an odd colour, at origin (0,0) or shifted.     *)

Origins == { <<0, 0>>, <<OriginShift, OriginShift - 1>> }

ImageBounds ==
    { Rect(o[1], o[2], o[1] + w, o[2] + h) : o \in Origins, w \in 1..MaxDim, h \in 1..MaxDim }

Painting(b, S, oddAt, oddColor) ==
    [p \in Points(b) |-> IF p \in oddAt THEN oddColor
                         ELSE IF p \in S THEN OpaqueRed ELSE Transparent]

IsInputImage(im) ==
    \E b \in ImageBounds :
        \E S \in SUBSET Points(b) :
            /\ Cardinality(S) <= MaxContent
            /\ \/ im = [bounds |-> b, pix |-> Painting(b, S, {}, Transparent)]
               \/ \E p \in Points(b), c \in OddColors :
                     im = [bounds |-> b, pix |-> Painting(b, S, {p}, c)]

-----------------------------------------------------------------------------
(* The cropper as a state machine: crop an image, then crop the result.    *)

NoRect == [minX |-> 0, minY |-> 0, maxX |-> 0, maxY |-> 0, foundContent |-> FALSE]

NoFactor == <<0, 0>>

NoViewBox == <<NoFactor, NoFactor>>

IdleCrop ==
    /\ img = NoImage
    /\ croppedImg = NoImage
    /\ recroppedImg = NoImage
    /\ contentRect = NoRect
    /\ cropPc = "idle"

IdleSample ==
    /\ finalImg = NoImage
    /\ skipped = {}

IdleDims ==
    /\ factor = NoFactor
    /\ width = 0 /\ height = 0
    /\ originalWidth = 0 /\ originalHeight = 0
    /\ targetWidth = 0 /\ targetHeight = 0

IdleCmd ==
    /\ cmd = "none"
    /\ inputPath = << >> /\ outputPath = << >> /\ algorithm = << >>
    /\ quality = NoFactor /\ svgScale = NoFactor
    /\ invoked = "none"
    /\ viewBox = NoViewBox /\ scale = NoFactor /\ renderSize = <<0, 0>>
    /\ filter = "none"
    /\ stages = << >>
    /\ openFiles = {} /\ inputOpened = FALSE
    /\ outputDirCreated = FALSE /\ outputFileCreated = FALSE
    /\ encoder = "none" /\ jpegQuality = 0
    /\ err = "none"

InitCrop ==
    /\ IsInputImage(img)
    /\ croppedImg = NoImage
    /\ contentRect = NoRect
    /\ recroppedImg = NoImage
    /\ cropPc = "input"
    /\ IdleDims
    /\ IdleCmd
    /\ IdleSample
    /\ pc = "idle"

Crop ==
    /\ cropPc = "input"
    /\ contentRect' = contentBounds(img)
    /\ croppedImg' = cropTransparentAreas(img)
    /\ cropPc' = "cropped"
    /\ UNCHANGED <<img, recroppedImg, dimVars, pc, cmdVars, sampleVars>>

CropAgain ==
    /\ cropPc = "cropped"
    /\ recroppedImg' = cropTransparentAreas(croppedImg)
    /\ cropPc' = "recropped"
    /\ UNCHANGED <<img, croppedImg, contentRect, dimVars, pc, cmdVars, sampleVars>>

NextCrop == Crop \/ CropAgain

SpecCrop == InitCrop /\ [][NextCrop]_vars

-----------------------------------------------------------------------------
(* The arithmetic of ScaleImage on its own.                               *)

\* The factors --factor is given: n/4 (exact in float32) and n/10 (rounded
\* by the flag's ParseFloat(s, 32)), either sign, and 0 for "not set".
Factors == { F32(n, d) : n \in (-MaxFactorNum)..MaxFactorNum, d \in {4, 10} }

TargetSizes == (-1)..MaxTarget

\* ScaleImage's arithmetic on its own: any image size, and a factor, or
\* target dimensions, or a factor beside one target dimension.
InitDims ==
    /\ IdleCrop
    /\ IdleCmd
    /\ IdleSample
    /\ originalWidth \in 1..MaxOriginal
    /\ originalHeight \in 1..MaxOriginal
    /\ \/ factor \in Factors /\ width = 0 /\ height = 0
       \/ factor = NoFactor /\ width \in TargetSizes /\ height \in TargetSizes
       \/ factor \in Factors /\ width \in {0, MaxTarget} /\ height \in {0, MaxTarget}
    /\ targetWidth = 0 /\ targetHeight = 0
    /\ pc = "dims"

ComputeTarget ==
    /\ pc = "dims"
    /\ LET t == targetDimensions(originalWidth, originalHeight, factor, width, height)
       IN  targetWidth' = t[1] /\ targetHeight' = t[2]
    /\ pc' = "dims_done"
    /\ UNCHANGED <<cropVars, sampleVars, cmdVars, factor, width, height, originalWidth, originalHeight>>

NextDims == ComputeTarget

SpecDims == InitDims /\ [][NextDims]_vars

-----------------------------------------------------------------------------
(* loadSVGWithScale's sizes (processor.go:275-326).                        *)

DefaultSize == 512

\* A float64 is, like a float32, a pair <<m, e>> for m * 2^e; the ViewBox
\* is a pair <<W, H>> of them.
F64FromInt(n) == <<n, 0>>

\* width, height: the ViewBox, or 512x512 when either is zero.
intrinsicSize(vb) ==
    IF vb[1][1] = 0 \/ vb[2][1] = 0
    THEN <<F64FromInt(DefaultSize), F64FromInt(DefaultSize)>>
    ELSE vb

\* The float64 product x * y, exact for the short significands used here.
F64Mul(x, y) ==
    LET a == Reduce(x)
        b == Reduce(y)
    IN  IF a[1] = 0 \/ b[1] = 0 THEN <<0, 0>> ELSE <<a[1] * b[1], a[2] + b[2]>>

\* int(x) of a float64: the fraction is discarded.
F64ToInt(x) == F32ToInt(Reduce(x))

\* int(width * float64(scale))
renderLengthUnscaled(w, s) == F64ToInt(w)
renderLength(w, s) == F64ToInt(F64Mul(w, s))

\* scale == 1.0
isOne(s) == IF s[2] > 0 THEN FALSE ELSE s[1] = 2^(-s[2])

\* The size of the image loadSVGWithScale returns: the final canvas of
\* int(width) by int(height) when scale != 1.0, or else the working canvas.
rasterSizeWorking(vb, s) ==
    LET size == intrinsicSize(vb)
    IN  <<renderLength(size[1], s), renderLength(size[2], s)>>
rasterSize(vb, s) ==
    LET size == intrinsicSize(vb)
    IN  IF ~isOne(s) THEN <<F64ToInt(size[1]), F64ToInt(size[2])>>
        ELSE <<renderLength(size[1], s), renderLength(size[2], s)>>

-----------------------------------------------------------------------------
(* The optimize command's output name (cmd/image.go:35-44) and saveImage's *)
(* choice of encoder (processor.go:443-466).                               *)

webpPathCaseSensitive(path) ==
    IF ~HasSuffix(path, DotWebp)
    THEN LET ext == Ext(path)
         IN  IF ext # << >> THEN TrimSuffix(path, ext) \o DotWebp
             ELSE path \o DotWebp
    ELSE path
webpPath(path) ==
    IF ~HasSuffix(ToLower(path), DotWebp)
    THEN LET ext == Ext(path)
         IN  IF ext # << >> THEN TrimSuffix(path, ext) \o DotWebp
             ELSE path \o DotWebp
    ELSE path

DotPng  == <<".", "p", "n", "g">>
DotJpg  == <<".", "j", "p", "g">>
DotJpeg == <<".", "j", "p", "e", "g">>

encoderForCaseSensitive(path) ==
    LET ext == Ext(path)
    IN  IF ext = DotPng THEN "png"
        ELSE IF ext \in {DotJpg, DotJpeg} THEN "jpeg"
        ELSE IF ext = DotWebp THEN "webp"
        ELSE "none"
encoderFor(path) ==
    LET ext == ToLower(Ext(path))
    IN  IF ext = DotPng THEN "png"
        ELSE IF ext \in {DotJpg, DotJpeg} THEN "jpeg"
        ELSE IF ext = DotWebp THEN "webp"
        ELSE "none"

\* jpegQuality := int(quality), 90 when below 1, 100 when above 100.
jpegQualityNoUpper(q) ==
    LET n == F32ToInt(q)
    IN  IF n < 1 THEN 90 ELSE n
jpegQualityOf(q) ==
    LET n == F32ToInt(q)
        n1 == IF n < 1 THEN 90 ELSE n
    IN  IF n1 > 100 THEN 100 ELSE n1

-----------------------------------------------------------------------------
(* One invocation of "image optimize" or "image scale".                    *)

InputPaths ==
    { <<"i", ".", "s", "v", "g">>, <<"i", ".", "S", "V", "G">>,
      <<"i", ".", "p", "n", "g">>, <<"s", ".", "s", "v", "g", "/", "i">> }

OutputPaths ==
    { <<"o", ".", "p", "n", "g">>, <<"o", ".", "J", "P", "G">>,
      <<"o", ".", "j", "p", "e", "g">>, <<"o", ".", "w", "e", "b", "p">>,
      <<"o", ".", "g", "i", "f">>, <<"o">>,
      <<"o", ".", "W", "e", "b", "P">>, <<"d", ".", "x", "/", "o">> }

Algorithms ==
    { Nearest, Bilinear, Linear, Bicubic, Cubic, Lanczos,
      <<"L", "A", "N", "C", "Z", "O", "S">>, <<"N", "E", "A", "R", "E", "S", "T">>,
      <<"b", "o", "x">> }

\* --quality: 0, 75.5, 150.
Qualities == { F32(0, 1), F32(151, 2), F32(150, 1) }

\* --svg-scale: -1, 0, 1, 2.5, 4, 10, NaN.
SvgScales == { F32(n, 4) : n \in {-4, 0, 4, 10, 16, 40} } \cup {NaN}

\* What the environment hands back: a decoded image's size, a ViewBox.
DecodedSizes == { <<1, 1>>, <<4, 2>> }
\* 0 x 2, 3 x 2, 2.5 x 1.5.
ViewBoxes ==
    { <<F64FromInt(0), F64FromInt(2)>>, <<F64FromInt(3), F64FromInt(2)>>,
      <<<<5, -1>>, <<3, -1>>>> }

\* The two commands, and the public methods no command calls: OptimizeImage
\* (input, output, quality) and LoadImage (input).
Init ==
    /\ IdleCrop
    /\ IdleSample
    /\ cmd \in {"optimize", "scale", "OptimizeImage", "LoadImage"}
    /\ inputPath \in InputPaths
    /\ outputPath \in (IF cmd = "LoadImage" THEN {<< >>} ELSE OutputPaths)
    /\ quality \in (IF cmd = "LoadImage" THEN {NoFactor} ELSE Qualities)
    /\ svgScale \in (IF cmd \in {"optimize", "scale"} THEN SvgScales ELSE {NoFactor})
    /\ IF cmd = "scale"
       THEN /\ factor \in {NoFactor, F32(2, 4)}
            /\ width \in {0, 2}
            /\ height \in {0, 3}
            /\ algorithm \in Algorithms
       ELSE /\ factor = NoFactor /\ width = 0 /\ height = 0
            /\ algorithm = << >>
    /\ originalWidth = 0 /\ originalHeight = 0
    /\ targetWidth = 0 /\ targetHeight = 0
    /\ invoked = "none"
    /\ viewBox = NoViewBox /\ scale = NoFactor /\ renderSize = <<0, 0>>
    /\ filter = "none"
    /\ stages = << >>
    /\ openFiles = {} /\ inputOpened = FALSE
    /\ outputDirCreated = FALSE /\ outputFileCreated = FALSE
    /\ encoder = "none" /\ jpegQuality = 0
    /\ err = "none"
    /\ pc = "start"

\* A return with an error: every deferred Close of the call chain runs.
FailLeaking(kind) ==
    /\ err' = kind
    /\ openFiles' = openFiles
    /\ pc' = "done"
Fail(kind) ==
    /\ err' = kind
    /\ openFiles' = {}
    /\ pc' = "done"

\* optimizeCmd.RunE up to its call of OptimizeImageWithScale.
RunOptimize ==
    /\ pc = "start" /\ cmd = "optimize"
    /\ outputPath' = webpPath(outputPath)
    /\ invoked' = "OptimizeImageWithScale"
    /\ pc' = "open"
    /\ UNCHANGED <<cropVars, sampleVars, argVars, svgVars, sizeVars, outVars, filter, stages,
                   openFiles, inputOpened, err>>

\* A direct call of Processor.OptimizeImage: the output path is used as it
\* is given.
CallOptimizeImage ==
    /\ pc = "start" /\ cmd = "OptimizeImage"
    /\ invoked' = "OptimizeImage"
    /\ pc' = "open"
    /\ UNCHANGED <<cropVars, sampleVars, argVars, outputPath, svgVars, sizeVars, outVars,
                   filter, stages, openFiles, inputOpened, err>>

\* A direct call of Processor.LoadImage.
CallLoadImage ==
    /\ pc = "start" /\ cmd = "LoadImage"
    /\ invoked' = "LoadImage"
    /\ pc' = "open"
    /\ UNCHANGED <<cropVars, sampleVars, argVars, outputPath, svgVars, sizeVars, outVars,
                   filter, stages, openFiles, inputOpened, err>>

\* scaleCmd.RunE up to its call of ScaleImage, or its rejection.
RunScale ==
    /\ pc = "start" /\ cmd = "scale"
    /\ IF invalidParameters(factor, width, height)
       THEN /\ err' = "InvalidParameters"
            /\ pc' = "done"
            /\ UNCHANGED invoked
       ELSE /\ invoked' = "ScaleImage"
            /\ pc' = "open"
            /\ UNCHANGED err
    /\ UNCHANGED <<cropVars, sampleVars, argVars, outputPath, svgVars, sizeVars, outVars, filter,
                   stages, openFiles, inputOpened>>

\* os.Open of the input: in loadSVGWithScale, LoadImage or
\* OptimizeImageWithScale.
OpenInput ==
    /\ pc = "open"
    /\ \/ /\ openFiles' = openFiles \cup {"input"}
          /\ inputOpened' = TRUE
          /\ pc' = "decode"
          /\ UNCHANGED err
       \/ /\ Fail("IOError")
          /\ UNCHANGED inputOpened
    /\ UNCHANGED <<cropVars, sampleVars, argVars, outputPath, invoked, svgVars, sizeVars, outVars,
                   filter, stages>>

\* io.ReadAll and oksvg.ReadIconStream in loadSVGWithScale.
ParseSVG ==
    /\ pc = "decode" /\ isSVG(inputPath)
    /\ stages' = Append(stages, "decode")
    /\ \/ /\ Fail("IOError")
          /\ UNCHANGED viewBox
       \/ /\ Fail("ParseError")
          /\ UNCHANGED viewBox
       \/ /\ viewBox' \in ViewBoxes
          /\ pc' = "rasterize"
          /\ UNCHANGED <<err, openFiles>>
    /\ UNCHANGED <<cropVars, sampleVars, argVars, outputPath, invoked, scale, renderSize, sizeVars,
                   outVars, filter, inputOpened>>

\* The rest of loadSVGWithScale: the clamp, the working canvas, the drawing,
\* the point sampling; its deferred Close runs as it returns.
\* A scale that is NaN passes both comparisons of the clamp. int() of a NaN
\* product is implementation-specific: the smallest int, with which
\* image.NewRGBA panics, or 0, an empty canvas from which nothing is sampled.
Rasterize ==
    /\ pc = "rasterize"
    /\ invoked \in {"OptimizeImageWithScale", "ScaleImage"}
    /\ scale' = clampScale(svgScale)
    /\ stages' = Append(stages, "rasterize")
    /\ LET s == clampScale(svgScale)
           size == intrinsicSize(viewBox)
       IN  IF s = NaN
           THEN \/ /\ Fail("panic")
                   /\ UNCHANGED <<renderSize, originalWidth, originalHeight>>
                \/ /\ renderSize' = <<0, 0>>
                   /\ originalWidth' = F64ToInt(size[1])
                   /\ originalHeight' = F64ToInt(size[2])
                   /\ openFiles' = openFiles \ {"input"}
                   /\ pc' = "transform"
                   /\ UNCHANGED err
           ELSE /\ renderSize' = <<renderLength(size[1], s), renderLength(size[2], s)>>
                /\ originalWidth' = rasterSize(viewBox, s)[1]
                /\ originalHeight' = rasterSize(viewBox, s)[2]
                /\ openFiles' = openFiles \ {"input"}
                /\ pc' = "transform"
                /\ UNCHANGED err
    /\ UNCHANGED <<cropVars, sampleVars, argVars, outputPath, invoked, viewBox, targetWidth,
                   targetHeight, outVars, filter, inputOpened>>

\* The rest of loadSVG, which OptimizeImage and LoadImage load an SVG with:
\* scale := 2.0, the working canvas, the drawing, the point sampling; its
\* deferred Close runs as it returns, and LoadImage returns with it.
FixedScale == F64FromInt(2)

RasterizeFixed ==
    /\ pc = "rasterize"
    /\ invoked \in {"OptimizeImage", "LoadImage"}
    /\ scale' = FixedScale
    /\ stages' = Append(stages, "rasterize")
    /\ LET size == intrinsicSize(viewBox)
       IN  /\ renderSize' = <<renderLength(size[1], FixedScale),
                              renderLength(size[2], FixedScale)>>
           /\ originalWidth' = rasterSize(viewBox, FixedScale)[1]
           /\ originalHeight' = rasterSize(viewBox, FixedScale)[2]
    /\ openFiles' = openFiles \ {"input"}
    /\ pc' = IF cmd = "LoadImage" THEN "done" ELSE "transform"
    /\ UNCHANGED <<cropVars, sampleVars, argVars, outputPath, invoked, viewBox, targetWidth,
                   targetHeight, outVars, filter, inputOpened, err>>

\* The decoding of a raster input: image.Decode in OptimizeImage and
\* OptimizeImageWithScale (whose deferred Close waits for their return), or
\* LoadImage (which closes as it returns, to ScaleImage or to its caller).
DecodeRaster ==
    /\ pc = "decode" /\ ~isSVG(inputPath)
    /\ stages' = Append(stages, "decode")
    /\ \/ /\ Fail("DecodeError")
          /\ UNCHANGED <<originalWidth, originalHeight>>
       \/ /\ \E d \in DecodedSizes :
                originalWidth' = d[1] /\ originalHeight' = d[2]
          /\ openFiles' = IF cmd \in {"scale", "LoadImage"} THEN openFiles \ {"input"}
                          ELSE openFiles
          /\ pc' = IF cmd = "LoadImage" THEN "done" ELSE "transform"
          /\ UNCHANGED err
    /\ UNCHANGED <<cropVars, sampleVars, argVars, outputPath, invoked, svgVars, targetWidth,
                   targetHeight, outVars, filter, inputOpened>>

\* The call of cropTransparentAreas in OptimizeImage and
\* OptimizeImageWithScale.
CropSkipped ==
    /\ pc = "transform" /\ cmd \in {"optimize", "OptimizeImage"}
    /\ pc' = "mkdir"
    /\ UNCHANGED <<cropVars, sampleVars, argVars, outputPath, invoked, svgVars, sizeVars,
                   outVars, filter, stages, openFiles, inputOpened, err>>
CropLoaded ==
    /\ pc = "transform" /\ cmd \in {"optimize", "OptimizeImage"}
    /\ stages' = Append(stages, "crop")
    /\ pc' = "mkdir"
    /\ UNCHANGED <<cropVars, sampleVars, argVars, outputPath, invoked, svgVars, sizeVars, outVars,
                   filter, openFiles, inputOpened, err>>

\* ScaleImage from the target dimensions to the switch on the algorithm.
Resample ==
    /\ pc = "transform" /\ cmd = "scale"
    /\ LET t == targetDimensions(originalWidth, originalHeight, factor, width, height)
       IN  targetWidth' = t[1] /\ targetHeight' = t[2]
    /\ IF resampleFilter(algorithm) = "none"
       THEN /\ Fail("UnsupportedAlgorithm")
            /\ UNCHANGED <<filter, stages>>
       ELSE /\ filter' = resampleFilter(algorithm)
            /\ stages' = Append(stages, "resample")
            /\ pc' = "mkdir"
            /\ UNCHANGED <<err, openFiles>>
    /\ UNCHANGED <<cropVars, sampleVars, argVars, outputPath, invoked, svgVars, originalWidth,
                   originalHeight, outVars, inputOpened>>

\* os.MkdirAll of the output directory, in saveAsWebP or saveImage.
MkdirOutput ==
    /\ pc = "mkdir"
    /\ \/ /\ outputDirCreated' = TRUE
          /\ pc' = "create"
          /\ UNCHANGED <<err, openFiles>>
       \/ /\ Fail("IOError")
          /\ UNCHANGED outputDirCreated
    /\ UNCHANGED <<cropVars, sampleVars, argVars, outputPath, invoked, svgVars, sizeVars,
                   outputFileCreated, encoder, jpegQuality, filter, stages, inputOpened>>

\* os.Create of the output file, in saveAsWebP or saveImage.
CreateOutput ==
    /\ pc = "create"
    /\ \/ /\ outputFileCreated' = TRUE
          /\ openFiles' = openFiles \cup {"output"}
          /\ pc' = "encode"
          /\ UNCHANGED err
       \/ /\ Fail("IOError")
          /\ UNCHANGED outputFileCreated
    /\ UNCHANGED <<cropVars, sampleVars, argVars, outputPath, invoked, svgVars, sizeVars,
                   outputDirCreated, encoder, jpegQuality, filter, stages, inputOpened>>

\* The rest of saveAsWebP: the encoder options, webp.Encode, the return.
EncodeWebP ==
    /\ pc = "encode" /\ cmd \in {"optimize", "OptimizeImage"}
    /\ \/ /\ Fail("EncoderOptions")
          /\ UNCHANGED <<encoder, stages>>
       \/ /\ encoder' = "webp"
          /\ stages' = Append(stages, "encode")
          /\ \/ Fail("EncodeError")
             \/ /\ openFiles' = {}
                /\ pc' = "done"
                /\ UNCHANGED err
    /\ UNCHANGED <<cropVars, sampleVars, argVars, outputPath, invoked, svgVars, sizeVars,
                   outputDirCreated, outputFileCreated, jpegQuality, filter, inputOpened>>

\* The rest of saveImage: the switch on the extension, the encoder, the
\* return.
EncodeByExtension ==
    /\ pc = "encode" /\ cmd = "scale"
    /\ LET e == encoderFor(outputPath)
       IN  \/ /\ e = "none"
              /\ Fail("UnsupportedFormat")
              /\ UNCHANGED <<encoder, jpegQuality, stages>>
           \/ /\ e = "webp"
              /\ Fail("EncoderOptions")
              /\ UNCHANGED <<encoder, jpegQuality, stages>>
           \/ /\ e # "none"
              /\ encoder' = e
              /\ jpegQuality' = IF e = "jpeg" THEN jpegQualityOf(quality) ELSE jpegQuality
              /\ stages' = Append(stages, "encode")
              /\ \/ Fail("EncodeError")
                 \/ /\ openFiles' = {}
                    /\ pc' = "done"
                    /\ UNCHANGED err
    /\ UNCHANGED <<cropVars, sampleVars, argVars, outputPath, invoked, svgVars, sizeVars,
                   outputDirCreated, outputFileCreated, filter, inputOpened>>

Next ==
    \/ RunOptimize \/ RunScale \/ CallOptimizeImage \/ CallLoadImage
    \/ OpenInput \/ ParseSVG \/ Rasterize \/ RasterizeFixed \/ DecodeRaster
    \/ CropLoaded \/ Resample
    \/ MkdirOutput \/ CreateOutput
    \/ EncodeWebP \/ EncodeByExtension

Spec == Init /\ [][Next]_vars

-----------------------------------------------------------------------------
(* loadSVGWithScale from its working canvas to the image it returns        *)
(* (processor.go:289-326), on its own.                                     *)

\* The largest ViewBox width here; widths and heights come in halves.
MaxViewBox == 3

SampleViewBoxes ==
    { <<Reduce(<<w, -1>>), Reduce(<<h, -1>>)>> : w \in 1..(2 * MaxViewBox), h \in 2..4 }

\* The scales the clamp lets through: 1, 1.25, ... 4, two that are no
\* multiple of a quarter, and NaN.
SampleScales ==
    { F32(n, 4) : n \in 4..16 } \cup { F32(13, 10), F32(37, 10), F32FromInt(1), NaN }

\* What icon.Draw leaves on the working canvas is the rasterizer's: here
\* every pixel tells its place, opaque or half-transparent.
Palettes == {"opaque", "half"}

paint(p, palette) ==
    IF palette = "opaque" THEN RGBA8To16(<<p[1] + 1, p[2] + 1, 0, 255>>)
    ELSE IF (p[1] + p[2]) % 2 = 0 THEN RGBA8To16(<<p[1] + 1, 0, p[2] + 1, 128>>)
    ELSE Transparent

drawn(b, palette) == [bounds |-> b, pix |-> [p \in Points(b) |-> paint(p, palette)]]

\* srcX := int(float64(x) * float64(scale))
sampleCoordUnscaled(x, s) == x
sampleCoord(x, s) == F64ToInt(F64Mul(F64FromInt(x), s))

\* srcX < renderWidth && srcY < renderHeight
inCanvas(p, s, render) ==
    sampleCoord(p[1], s) < render[1] /\ sampleCoord(p[2], s) < render[2]

\* The final canvas: finalImg.Set(x, y, img.At(srcX, srcY)) where the check
\* passes, the zero pixel of image.NewRGBA elsewhere.
pointSample(canvas, size, s, render) ==
    LET b == Rect(0, 0, F64ToInt(size[1]), F64ToInt(size[2]))
    IN  [bounds |-> b,
         pix |-> [p \in Points(b) |->
                    IF inCanvas(p, s, render)
                    THEN SetRGBA(At(canvas, sampleCoord(p[1], s), sampleCoord(p[2], s)))
                    ELSE Transparent]]

\* loadSVG samples as loadSVGWithScale does, always at its scale 2.0.
InitSample ==
    /\ IdleCrop
    /\ IdleDims
    /\ IdleSample
    /\ cmd = "none"
    /\ inputPath = << >> /\ outputPath = << >> /\ algorithm = << >>
    /\ quality = NoFactor /\ svgScale = NoFactor
    /\ invoked \in {"loadSVG", "loadSVGWithScale"}
    /\ viewBox \in SampleViewBoxes
    /\ scale \in (IF invoked = "loadSVG" THEN {FixedScale} ELSE SampleScales)
    /\ renderSize = <<0, 0>>
    /\ filter = "none"
    /\ stages = << >>
    /\ openFiles = {} /\ inputOpened = FALSE
    /\ outputDirCreated = FALSE /\ outputFileCreated = FALSE
    /\ encoder = "none" /\ jpegQuality = 0
    /\ err = "none"
    /\ pc = "canvas"

\* The working canvas: image.NewRGBA of the render size, cleared, drawn on.
\* With a NaN scale int() gives the smallest int and NewRGBA panics, or 0
\* and the canvas is empty.
DrawCanvas ==
    /\ pc = "canvas"
    /\ LET size == intrinsicSize(viewBox)
       IN  IF scale = NaN
           THEN \/ /\ err' = "panic"
                   /\ pc' = "done"
                   /\ UNCHANGED <<img, renderSize>>
                \/ /\ renderSize' = <<0, 0>>
                   /\ img' = NewRGBA(Rect(0, 0, 0, 0))
                   /\ pc' = "drawn"
                   /\ UNCHANGED err
           ELSE /\ renderSize' = <<renderLength(size[1], scale), renderLength(size[2], scale)>>
                /\ \E palette \in Palettes :
                      img' = drawn(Rect(0, 0, renderLength(size[1], scale),
                                              renderLength(size[2], scale)), palette)
                /\ pc' = "drawn"
                /\ UNCHANGED err
    /\ UNCHANGED <<croppedImg, recroppedImg, contentRect, cropPc, dimVars, sampleVars,
                   argVars, outputPath, invoked, viewBox, scale, outVars, filter, stages,
                   openFiles, inputOpened>>

\* if scale != 1.0 { ... img = finalImg }; return img. Every comparison
\* with NaN but != is false, and with an empty canvas no check passes.
PointSample ==
    /\ pc = "drawn"
    /\ LET size == intrinsicSize(viewBox)
           b == Rect(0, 0, F64ToInt(size[1]), F64ToInt(size[2]))
       IN  IF isOne(scale)
           THEN /\ finalImg' = img
                /\ skipped' = {}
           ELSE IF scale = NaN
           THEN /\ finalImg' = NewRGBA(b)
                /\ skipped' = Points(b)
           ELSE /\ finalImg' = pointSample(img, size, scale, renderSize)
                /\ skipped' = { p \in Points(b) : ~inCanvas(p, scale, renderSize) }
    /\ pc' = "sampled"
    /\ UNCHANGED <<cropVars, dimVars, cmdVars>>

NextSample == DrawCanvas \/ PointSample

SpecSample == InitSample /\ [][NextSample]_vars

-----------------------------------------------------------------------------
(* Properties of the cropper, stated without the scan: the content points  *)
(* of an image and the extremes of their coordinates.                      *)

ContentPoints(im) == { p \in Points(im.bounds) : \E i \in 1..4 : im.pix[p][i] > 0 }

Least(S)    == CHOOSE n \in S : \A m \in S : n <= m
Greatest(S) == CHOOSE n \in S : \A m \in S : n >= m

Xs(im) == { p[1] : p \in ContentPoints(im) }
Ys(im) == { p[2] : p \in ContentPoints(im) }

Cropped == cropPc \in {"cropped", "recropped"}

\* C1: when the image has a content pixel (alpha > 0 or a colour channel
\* > 0), the rectangle the scan ends with encloses every content pixel and
\* each of its four edges holds a content pixel.
C1_MinimalBoundingRect ==
    (Cropped /\ ContentPoints(img) # {}) =>
        /\ contentRect.foundContent
        /\ \A p \in ContentPoints(img) :
              /\ contentRect.minX <= p[1] /\ p[1] <= contentRect.maxX
              /\ contentRect.minY <= p[2] /\ p[2] <= contentRect.maxY
        /\ \E p \in ContentPoints(img) : p[1] = contentRect.minX
        /\ \E p \in ContentPoints(img) : p[1] = contentRect.maxX
        /\ \E p \in ContentPoints(img) : p[2] = contentRect.minY
        /\ \E p \in ContentPoints(img) : p[2] = contentRect.maxY

\* A cropped image, at a shifted origin, whose only content pixels are one
\* with alpha 0 and a colour and an opaque one, off every border.
C1_Witness ==
    /\ Cropped
    /\ img.bounds.min # <<0, 0>>
    /\ \E p \in ContentPoints(img) : img.pix[p][4] = 0
    /\ \E p \in ContentPoints(img) : img.pix[p][4] = ChanMax
    /\ contentRect.minX < contentRect.maxX
    /\ contentRect.maxX < img.bounds.max[1] - 1
    /\ contentRect.minY > img.bounds.min[2]

\* The crop result has the size of the content rectangle.
CropSizeIsRect ==
    /\ Dx(croppedImg.bounds) = Greatest(Xs(img)) - Least(Xs(img)) + 1
    /\ Dy(croppedImg.bounds) = Greatest(Ys(img)) - Least(Ys(img)) + 1
    /\ croppedImg.bounds.min = <<0, 0>>

\* C2 as claimed: the output has the rectangle's size and output pixel (i, j)
\* equals input pixel (minX + i, minY + j).
C2_CopiedVerbatim ==
    (Cropped /\ ContentPoints(img) # {}) =>
        /\ CropSizeIsRect
        /\ \A p \in Points(croppedImg.bounds) :
              croppedImg.pix[p] = img.pix[<<Least(Xs(img)) + p[1], Least(Ys(img)) + p[2]>>]

\* C2, amended: the output has the rectangle's size and output pixel (i, j)
\* is input pixel (minX + i, minY + j) with every 16-bit channel reduced to
\* its high byte (the byte repeated when read back).
C2_CopiedAsRGBA8 ==
    (Cropped /\ ContentPoints(img) # {}) =>
        /\ CropSizeIsRect
        /\ \A p \in Points(croppedImg.bounds) : \A i \in 1..4 :
              LET c == img.pix[<<Least(Xs(img)) + p[1], Least(Ys(img)) + p[2]>>][i]
                  hi == c \div 256
              IN  croppedImg.pix[p][i] = hi * 256 + hi

\* A crop of an image at a shifted origin whose rectangle starts off the
\* origin, holds a non-content pixel, and holds a colour that is not a
\* multiple of 257 per channel.
C2_Witness ==
    /\ Cropped
    /\ img.bounds.min # <<0, 0>>
    /\ ContentPoints(img) # {}
    /\ Least(Xs(img)) > img.bounds.min[1]
    /\ Least(Ys(img)) > img.bounds.min[2]
    /\ \E p \in Points(croppedImg.bounds) : croppedImg.pix[p] = Transparent
    /\ \E p \in ContentPoints(img) : img.pix[p][1] % 257 # 0

\* C3: an image whose pixels are all zero in every channel crops to a 1x1
\* image whose pixel is fully transparent.
C3_EmptyCropsToOnePixel ==
    (Cropped /\ \A p \in Points(img.bounds) : img.pix[p] = Transparent) =>
        /\ croppedImg.bounds = Rect(0, 0, 1, 1)
        /\ croppedImg.pix = [p \in { <<0, 0>> } |-> Transparent]

\* A crop of an all-zero image larger than 1x1 in both directions.
C3_Witness ==
    /\ Cropped
    /\ ContentPoints(img) = {}
    /\ Dx(img.bounds) > 1 /\ Dy(img.bounds) > 1
    /\ img.bounds.min # <<0, 0>>

\* C4 as claimed: cropping the result of a crop returns it unchanged, in
\* bounds and in pixels.
C4_CropIdempotent ==
    cropPc = "recropped" => recroppedImg = croppedImg

-----------------------------------------------------------------------------
(* Properties of the scale arithmetic.                                     *)

\* n / d rounded to the nearest integer, halves away from zero (d > 0).
RoundRatio(n, d) == Sign(n) * ((2 * Abs(n) + d) \div (2 * d))

\* The real number x = m * 2^e rounded to the nearest integer.
RoundOf(x) == IF x[2] >= 0 THEN x[1] * 2^(x[2]) ELSE RoundRatio(x[1], 2^(-x[2]))

\* t is the float32 x with its fraction discarded: |t| <= |x| < |t| + 1,
\* and t has the sign of x or is 0.
IsTruncationOf(t, x) ==
    IF x[2] >= 0 THEN t = x[1] * 2^(x[2])
    ELSE /\ t = 0 \/ (t > 0 /\ x[1] > 0) \/ (t < 0 /\ x[1] < 0)
         /\ Abs(t) * 2^(-x[2]) <= Abs(x[1])
         /\ Abs(x[1]) < (Abs(t) + 1) * 2^(-x[2])

\* The exact product of an integer and a float32, as <<m, e>>.
ExactTimes(n, x) == <<n * x[1], x[2]>>

DimsDone == pc = "dims_done"

\* C5 as claimed: with a factor f, the target is round(original x f) on each
\* axis.
C5_FactorRoundsToNearest ==
    (DimsDone /\ factor[1] # 0) =>
        /\ targetWidth = RoundOf(ExactTimes(originalWidth, factor))
        /\ targetHeight = RoundOf(ExactTimes(originalHeight, factor))

\* C5, amended: with a factor f, the target on each axis is the float32
\* product float32(original) * f with its fraction discarded.
C5_FactorTruncates ==
    (DimsDone /\ factor[1] # 0) =>
        /\ IsTruncationOf(targetWidth, F32Mul(F32FromInt(originalWidth), factor))
        /\ IsTruncationOf(targetHeight, F32Mul(F32FromInt(originalHeight), factor))

\* A factor alone whose product with the width has a fraction of a half or
\* more, so that rounding and truncating differ.
C5_Witness ==
    /\ DimsDone
    /\ factor[1] > 0 /\ width = 0 /\ height = 0
    /\ targetWidth > 0
    /\ targetWidth # RoundOf(ExactTimes(originalWidth, factor))

WidthOnly == factor[1] = 0 /\ width # 0 /\ height = 0
HeightOnly == factor[1] = 0 /\ width = 0 /\ height # 0

\* C6 as claimed: with one target dimension given, it is used as it is and
\* the other is round(given x other original / same original).
C6_AspectRoundsToNearest ==
    /\ (DimsDone /\ WidthOnly) =>
          /\ targetWidth = width
          /\ targetHeight = RoundRatio(width * originalHeight, originalWidth)
    /\ (DimsDone /\ HeightOnly) =>
          /\ targetHeight = height
          /\ targetWidth = RoundRatio(height * originalWidth, originalHeight)

\* C6, amended: with one target dimension given, it is used as it is and the
\* other is float32(given) * (float32(other original) / float32(same
\* original)), each operation rounded to float32, with the fraction
\* discarded.
C6_AspectTruncates ==
    /\ (DimsDone /\ WidthOnly) =>
          /\ targetWidth = width
          /\ IsTruncationOf(targetHeight,
                F32Mul(F32FromInt(width), F32DivInts(originalHeight, originalWidth)))
    /\ (DimsDone /\ HeightOnly) =>
          /\ targetHeight = height
          /\ IsTruncationOf(targetWidth,
                F32Mul(F32FromInt(height), F32DivInts(originalWidth, originalHeight)))

\* A width alone on an image that is not square, where the float32 result is
\* even below the exact quotient's whole part (3x7 with width 27: 62, not 63).
C6_Witness ==
    /\ DimsDone /\ WidthOnly
    /\ width > 0
    /\ originalWidth # originalHeight
    /\ targetHeight < (width * originalHeight) \div originalWidth

-----------------------------------------------------------------------------
(* Properties of the scale command's checks and of the choice of filter.   *)

Stages == { stages[i] : i \in DOMAIN stages }

FactorSet == factor[1] # 0
WidthSet == width # 0
HeightSet == height # 0

\* None of factor, width, height is set, or factor is set with one of the
\* other two.
RejectedCombination ==
    \/ ~FactorSet /\ ~WidthSet /\ ~HeightSet
    \/ FactorSet /\ WidthSet
    \/ FactorSet /\ HeightSet

\* C7: the scale command rejects with InvalidParameters, before the
\* processor is invoked and before any input file is opened, every
\* combination with none of factor, width, height set and every combination
\* of factor with width or height; every other combination reaches
\* ScaleImage.
C7_RejectedBeforeProcessor ==
    (cmd = "scale" /\ pc # "start") =>
        IF RejectedCombination
        THEN /\ err = "InvalidParameters"
             /\ pc = "done"
             /\ invoked = "none"
             /\ ~inputOpened
             /\ openFiles = {}
             /\ stages = << >>
        ELSE /\ invoked = "ScaleImage"
             /\ err # "InvalidParameters"

C7_Witness ==
    /\ cmd = "scale" /\ pc = "done"
    /\ FactorSet /\ ~WidthSet /\ HeightSet
    /\ err = "InvalidParameters"
    /\ invoked = "none"

\* The names the switch of ScaleImage has a case for, and the four of the
\* flag's help text.
AcceptedNames == {Nearest, Bilinear, Linear, Bicubic, Cubic, Lanczos}
DocumentedNames == {Nearest, Bilinear, Bicubic, Lanczos}

\* ScaleImage has been called and has loaded its input.
ScaleLoaded ==
    /\ cmd = "scale" /\ invoked = "ScaleImage"
    /\ "decode" \in Stages
    /\ originalWidth > 0

NoOutputCreated == ~outputDirCreated /\ ~outputFileCreated

\* C8 (as stated): when a scale operation requested with an unrecognized
\* algorithm name returns its UnsupportedAlgorithm error, no input file has
\* been opened or read and no output directory or file has been created.
C8_NoIOSideEffects ==
    (cmd = "scale" /\ pc = "done" /\ err = "UnsupportedAlgorithm"
        /\ ToLower(algorithm) \notin AcceptedNames)
    => (~inputOpened /\ "decode" \notin Stages /\ NoOutputCreated)

\* C8 (amended): a scale operation whose input has loaded, requested with a
\* name the switch has no case for, fails with UnsupportedAlgorithm; by
\* then the input file has been opened, read and closed, and no output
\* directory or file has been created.
C8_FailsAfterLoadBeforeOutput ==
    /\ (ScaleLoaded /\ pc = "done" /\ ToLower(algorithm) \notin AcceptedNames)
       => /\ err = "UnsupportedAlgorithm"
          /\ inputOpened
          /\ openFiles = {}
          /\ NoOutputCreated
          /\ filter = "none"
    /\ err = "UnsupportedAlgorithm"
       => /\ ScaleLoaded /\ pc = "done"
          /\ ToLower(algorithm) \notin AcceptedNames
          /\ NoOutputCreated

C8_Witness ==
    /\ pc = "done" /\ ScaleLoaded
    /\ algorithm = <<"b", "o", "x">>
    /\ err = "UnsupportedAlgorithm"
    /\ inputOpened /\ openFiles = {}

\* The filter each documented name stands for.
FilterOf(name) ==
    CASE name = Nearest -> "NearestNeighbor"
      [] name = Bilinear -> "Linear"
      [] name = Bicubic -> "CatmullRom"
      [] name = Lanczos -> "Lanczos"

\* ScaleImage is past its switch on the algorithm.
PastSwitch ==
    ScaleLoaded /\ (pc \in {"mkdir", "create", "encode"} \/ "resample" \in Stages)

\* C9 (as stated): the accepted names are exactly nearest, bilinear,
\* bicubic, lanczos: every other name makes ScaleImage fail with
\* UnsupportedAlgorithm rather than select a filter, and the four select
\* distinct filters.
C9_ExactlyFourNames ==
    /\ PastSwitch => (algorithm \in DocumentedNames /\ filter = FilterOf(algorithm))
    /\ (ScaleLoaded /\ pc = "done" /\ algorithm \notin DocumentedNames)
       => (err = "UnsupportedAlgorithm" /\ filter = "none")

\* The documented name an accepted name stands for: itself in lower case,
\* bilinear for linear, bicubic for cubic.
Canonical(a) ==
    LET name == ToLower(a)
    IN  IF name = Linear THEN Bilinear
        ELSE IF name = Cubic THEN Bicubic
        ELSE name

\* C9 (amended): the accepted names are, whatever the case of their
\* letters, nearest, bilinear, bicubic, lanczos, and linear for bilinear and
\* cubic for bicubic; every other name makes ScaleImage, once its input has
\* loaded, fail with UnsupportedAlgorithm rather than select a filter, and
\* the four documented names select four distinct filters.
C9_SixNamesAnyCase ==
    /\ PastSwitch
       => /\ ToLower(algorithm) \in AcceptedNames
          /\ filter = FilterOf(Canonical(algorithm))
    /\ (ScaleLoaded /\ pc = "done" /\ ToLower(algorithm) \notin AcceptedNames)
       => (err = "UnsupportedAlgorithm" /\ filter = "none")
    /\ (ScaleLoaded /\ pc = "done" /\ ToLower(algorithm) \in AcceptedNames)
       => (err # "UnsupportedAlgorithm" /\ filter # "none")
    /\ \A a, b \in DocumentedNames : a # b => FilterOf(a) # FilterOf(b)

C9_Witness ==
    /\ PastSwitch
    /\ algorithm = Linear
    /\ filter = "Linear"
    /\ err = "none"

-----------------------------------------------------------------------------
(* Properties of the rasterization scale.                                  *)

\* 1 <= x <= 4 of a float32: false of NaN.
InClampRange(x) ==
    LET r == Reduce(x)
    IN  /\ x # NaN
        /\ IF r[2] >= 0 THEN r[1] * 2^(r[2]) \in 1..4
           ELSE r[1] >= 2^(-r[2]) /\ r[1] <= 4 * 2^(-r[2])

BelowOne(x) ==
    LET r == Reduce(x)
    IN  x # NaN /\ (IF r[2] >= 0 THEN r[1] < 1 ELSE r[1] < 2^(-r[2]))

\* The rasterizer has fixed its scale and sized its canvas.
Rasterized == "rasterize" \in Stages

\* C10: on the optimize path and on the scale path, the rasterization scale
\* used is the requested one clamped to [1, 4]: unchanged within the range,
\* 1 below it, 4 above it, for every requested value.
C10_ScaleClamped ==
    (cmd \in {"optimize", "scale"} /\ Rasterized) =>
        /\ InClampRange(scale)
        /\ IF InClampRange(svgScale) THEN Reduce(scale) = Reduce(svgScale)
           ELSE IF BelowOne(svgScale) THEN Reduce(scale) = <<1, 0>>
           ELSE Reduce(scale) = <<1, 2>>
        /\ renderSize[1] >= F64ToInt(intrinsicSize(viewBox)[1])
        /\ renderSize[1] <= F64ToInt(F64Mul(F64FromInt(4), intrinsicSize(viewBox)[1]))

-----------------------------------------------------------------------------
(* Properties of the rasterizer's sizes.                                   *)

\* The whole pixels in a length x >= 0.
Floor(x) ==
    LET r == Reduce(x)
    IN  IF r[2] >= 0 THEN r[1] * 2^(r[2]) ELSE r[1] \div 2^(-r[2])

ViewBoxHasZero == viewBox[1][1] = 0 \/ viewBox[2][1] = 0

\* loadSVG or loadSVGWithScale has returned an image.
RasterReturned == Rasterized /\ err # "panic"

\* C11: for every vector document and every scale, the image the rasterizer
\* returns has the intrinsic dimensions, the viewbox's width and height or
\* 512x512 when either is zero, and not those of the working canvas.
C11_ReturnsIntrinsicSize ==
    RasterReturned =>
        /\ originalWidth = (IF ViewBoxHasZero THEN 512 ELSE Floor(viewBox[1]))
        /\ originalHeight = (IF ViewBoxHasZero THEN 512 ELSE Floor(viewBox[2]))

C11_Witness ==
    /\ RasterReturned
    /\ viewBox = <<F64FromInt(3), F64FromInt(2)>>
    /\ Reduce(scale) = <<1, 2>>
    /\ renderSize = <<12, 8>>
    /\ originalWidth = 3 /\ originalHeight = 2

-----------------------------------------------------------------------------
(* Properties of the point sampling.                                       *)

\* floor(x * s) for a pixel coordinate x >= 0 and a scale s > 0.
FloorTimes(x, s) ==
    LET r == Reduce(s)
    IN  IF r[2] >= 0 THEN x * r[1] * 2^(r[2]) ELSE (x * r[1]) \div 2^(-r[2])

\* The working-canvas point the output pixel p samples.
SamplePoint(p) == <<FloorTimes(p[1], scale), FloorTimes(p[2], scale)>>

\* That point lies inside the working canvas.
InsideCanvas(p) == scale # NaN /\ SamplePoint(p) \in Points(img.bounds)

ScaleIsOne == scale # NaN /\ Reduce(scale) = <<1, 0>>

Sampled == pc = "sampled"

\* C12: at a scale other than 1 every pixel (x, y) of the final canvas is
\* the working-canvas pixel at (floor(x * scale), floor(y * scale)) when
\* that point is inside the working canvas and fully transparent when not;
\* at scale 1 the working canvas is returned unchanged.
C12_PointSampled ==
    Sampled =>
        IF ScaleIsOne THEN finalImg = img
        ELSE /\ finalImg.bounds = Rect(0, 0, Floor(viewBox[1]), Floor(viewBox[2]))
             /\ \A p \in Points(finalImg.bounds) :
                    IF InsideCanvas(p)
                    THEN finalImg.pix[p] = img.pix[SamplePoint(p)]
                    ELSE finalImg.pix[p] = Transparent

C12_Witness ==
    /\ Sampled
    /\ Reduce(viewBox[1]) = <<3, 0>> /\ Reduce(viewBox[2]) = <<1, 1>>
    /\ scale = F32(10, 4)
    /\ img.bounds = Rect(0, 0, 7, 5)
    /\ finalImg.bounds = Rect(0, 0, 3, 2)
    /\ finalImg.pix[<<2, 1>>] = img.pix[<<5, 2>>]
    /\ finalImg.pix[<<2, 1>>] = RGBA8To16(<<6, 3, 0, 255>>)

\* 1 < scale <= 4
ScaleAboveOne == InClampRange(scale) /\ ~ScaleIsOne

\* C20: for every intrinsic size and every clamped scale in (1, 4], the
\* point every output pixel samples lies inside the working canvas of
\* floor(width * scale) by floor(height * scale): the bounds check never
\* fails and no output pixel is skipped.
C20_SampleInsideCanvas ==
    (Sampled /\ ScaleAboveOne) =>
        /\ img.bounds = Rect(0, 0, FloorTimes(1, F64Mul(viewBox[1], scale)),
                                   FloorTimes(1, F64Mul(viewBox[2], scale)))
        /\ \A p \in Points(finalImg.bounds) : SamplePoint(p) \in Points(img.bounds)
        /\ skipped = {}

C20_Witness ==
    /\ Sampled
    /\ scale = F32(13, 10)
    /\ viewBox = <<<<5, -1>>, <<3, -1>>>>
    /\ img.bounds = Rect(0, 0, 3, 1)
    /\ finalImg.bounds = Rect(0, 0, 2, 1)
    /\ skipped = {}

-----------------------------------------------------------------------------
(* Properties of the output format.                                        *)

\* The places of the dots in the last element of a path.
ExtDots(path) ==
    { i \in 1..Len(path) : path[i] = "." /\ \A j \in i..Len(path) : path[j] # "/" }

LastDot(path) == CHOOSE i \in ExtDots(path) : \A j \in ExtDots(path) : j <= i

\* A path ends in ".webp", in any letter case.
EndsInWebp(path) ==
    /\ Len(path) >= 5
    /\ path[Len(path) - 4] = "."
    /\ path[Len(path) - 3] \in {"w", "W"}
    /\ path[Len(path) - 2] \in {"e", "E"}
    /\ path[Len(path) - 1] \in {"b", "B"}
    /\ path[Len(path)] \in {"p", "P"}

\* The requested name kept, or its extension replaced, or .webp appended.
AsWebp(path) ==
    IF EndsInWebp(path) THEN path
    ELSE IF ExtDots(path) # {} THEN SubSeq(path, 1, LastDot(path) - 1) \o DotWebp
    ELSE path \o DotWebp

\* C13: optimize always produces WebP: the path handed to the processor
\* ends in ".webp" in some letter case, being the requested path kept when
\* it ends so, with its extension replaced when it has another, with .webp
\* appended when it has none, and the processor encodes with the lossy WebP
\* encoder whatever the path.
C13_OptimizeAlwaysWebp ==
    /\ [](cmd = "optimize" =>
            /\ pc # "start" => (invoked = "OptimizeImageWithScale" /\ EndsInWebp(outputPath))
            /\ (pc = "done" /\ err = "none") => encoder = "webp")
    /\ [](cmd \in {"optimize", "OptimizeImage"} => encoder \in {"none", "webp"})
    /\ [][(cmd = "optimize" /\ pc = "start" /\ pc' # "start")
            => outputPath' = AsWebp(outputPath)]_vars

C13_Witness ==
    /\ cmd = "optimize" /\ pc = "done" /\ err = "none"
    /\ outputPath = <<"d", ".", "x", "/", "o", ".", "w", "e", "b", "p">>
    /\ encoder = "webp"
    /\ outputFileCreated

\* The stages of a whole run, in order: decode, rasterize for a vector
\* input, the command's transform, encode.
Transform == IF cmd \in {"optimize", "OptimizeImage"} THEN "crop" ELSE "resample"

Load == IF isSVG(inputPath) THEN <<"decode", "rasterize">> ELSE <<"decode">>

\* LoadImage called by itself is the load alone.
FullRun == IF cmd = "LoadImage" THEN Load ELSE Load \o <<Transform, "encode">>

LoadAndTransform == IF cmd = "LoadImage" THEN Load ELSE Load \o <<Transform>>

\* The extension of a path, in lower case.
LowerExt(path) ==
    IF ExtDots(path) = {} THEN << >>
    ELSE ToLower(SubSeq(path, LastDot(path), Len(path)))

SupportedExt(path) == LowerExt(path) \in {DotPng, DotJpg, DotJpeg, DotWebp}

FormatOf(path) ==
    CASE LowerExt(path) = DotPng -> "png"
      [] LowerExt(path) \in {DotJpg, DotJpeg} -> "jpeg"
      [] LowerExt(path) = DotWebp -> "webp"
      [] OTHER -> "unsupported"

\* C14 (as stated): for scale the encoding is chosen by the lower-cased
\* output extension alone: .png PNG, .jpg and .jpeg JPEG, .webp lossy WebP;
\* with any other extension, or none, the operation, once invoked, fails
\* with UnsupportedFormat and never returns success.
C14_UnsupportedAlwaysUnsupportedFormat ==
    (cmd = "scale" /\ invoked = "ScaleImage") =>
        /\ encoder # "none" => encoder = FormatOf(outputPath)
        /\ (pc = "done" /\ err = "none") => encoder = FormatOf(outputPath)
        /\ (pc = "done" /\ ~SupportedExt(outputPath)) => err = "UnsupportedFormat"

\* The failures of the steps that come before saveImage's switch on the
\* extension.
EarlierFailures ==
    {"InvalidParameters", "IOError", "ParseError", "DecodeError", "panic", "UnsupportedAlgorithm"}

\* C14 (amended): for scale the encoding is chosen by the lower-cased output
\* extension alone: .png PNG, .jpg and .jpeg JPEG, .webp lossy WebP; with
\* any other extension, or none, the operation never returns success: it
\* ends with UnsupportedFormat exactly when the input has loaded and been
\* resampled and the output directory and file have been created, and with
\* the failure of an earlier step otherwise.
C14_EncodingByExtension ==
    cmd = "scale" =>
        /\ encoder # "none" => encoder = FormatOf(outputPath)
        /\ (pc = "done" /\ err = "none") => encoder = FormatOf(outputPath)
        /\ (pc = "done" /\ ~SupportedExt(outputPath)) =>
              /\ encoder = "none"
              /\ IF outputFileCreated
                 THEN /\ err = "UnsupportedFormat"
                      /\ outputDirCreated
                      /\ stages = LoadAndTransform
                 ELSE err \in EarlierFailures
        /\ err = "UnsupportedFormat" => ~SupportedExt(outputPath)

C14_Witness ==
    /\ cmd = "scale" /\ pc = "done" /\ err = "UnsupportedFormat"
    /\ outputPath = <<"o", ".", "g", "i", "f">>
    /\ outputFileCreated
    /\ encoder = "none"

JpegWritten == cmd = "scale" /\ encoder = "jpeg"

\* C15 (as stated): the quality handed to the JPEG encoder is the requested
\* one clamped into [1, 100]: 1 for a request below 1, 100 for one above
\* 100, the integer value of one inside.
C15_JpegQualityClamped ==
    JpegWritten =>
        jpegQuality = (IF Floor(quality) < 1 THEN 1
                       ELSE IF Floor(quality) > 100 THEN 100
                       ELSE Floor(quality))

\* C15 (amended): the quality handed to the JPEG encoder is an integer in
\* [1, 100]: 90 for a request below 1, 100 for one above 100, the integer
\* part of one inside.
C15_JpegQualityDefaulted ==
    JpegWritten =>
        /\ jpegQuality \in 1..100
        /\ jpegQuality = (IF Floor(quality) < 1 THEN 90
                          ELSE IF Floor(quality) > 100 THEN 100
                          ELSE Floor(quality))

C15_Witness ==
    /\ JpegWritten /\ pc = "done" /\ err = "none"
    /\ quality = F32(0, 1)
    /\ jpegQuality = 90

-----------------------------------------------------------------------------
(* Properties of the invocation as a whole.                                *)

Returned == cmd # "none" /\ pc = "done"

\* C16: every file handle opened during an optimize or scale invocation,
\* of the input or of the output, is closed by the time the operation
\* returns, on every exit path: no handle is open at return.
C16_HandlesClosedAtReturn ==
    /\ openFiles \subseteq {"input", "output"}
    /\ "input" \in openFiles => inputOpened
    /\ "output" \in openFiles => outputFileCreated
    /\ Returned => openFiles = {}

C16_Witness ==
    /\ Returned /\ cmd = "optimize"
    /\ err = "EncodeError"
    /\ inputOpened /\ outputFileCreated
    /\ ~isSVG(inputPath)
    /\ openFiles = {}

IsPrefix(s, t) == Len(s) <= Len(t) /\ s = SubSeq(t, 1, Len(s))

Saving == pc \in {"mkdir", "create", "encode"} \/ outputDirCreated \/ outputFileCreated

\* C17: every invocation runs load (decode, and rasterize for a vector
\* input), then its transform, then encode, each at most once and in that
\* order; a successful one runs them all; the output is not touched before
\* load and transform are done; an error ends the invocation at once.
C17_StagesInOrder ==
    /\ [](cmd # "none" =>
            /\ IsPrefix(stages, FullRun)
            /\ (Returned /\ err = "none") => stages = FullRun
            /\ Saving => IsPrefix(LoadAndTransform, stages)
            /\ err # "none" => pc = "done")
    /\ [][pc # "done"]_vars

C17_Witness ==
    /\ Returned /\ cmd = "scale" /\ err = "none"
    /\ stages = <<"decode", "rasterize", "resample", "encode">>
    /\ outputFileCreated

\* C18: for every combination of factor, width and height the scale
\* command lets through and every input of at least 1x1 pixels, the target
\* width and height ScaleImage computes are both at least 1.
C18_TargetAtLeastOne ==
    (DimsDone /\ ~RejectedCombination /\ originalWidth >= 1 /\ originalHeight >= 1)
    => (targetWidth >= 1 /\ targetHeight >= 1)

\* C19: a scale operation that fails for its unsupported output extension
\* leaves the file system unchanged: neither the output directory nor the
\* output file has been created when UnsupportedFormat is returned.
C19_UnsupportedFormatWritesNothing ==
    (cmd = "scale" /\ pc = "done" /\ err = "UnsupportedFormat")
    => (~outputDirCreated /\ ~outputFileCreated)

=============================================================================
